---- MODULE Spec2Model ----
(***************************************************************************)
(* Asset lifecycle and repair workflow of the asset tracker.               *)
(*                                                                         *)
(* Tables are functions from the ids of the rows that exist to records.    *)
(* A nullable numeric column is a tuple: <<>> is NULL, <<v>> is the value. *)
(* A nullable text column is a string, NULL being the string "NULL".       *)
(* Every request handler is one action; `last' records the handler that    *)
(* produced the current state, what was submitted and how it ended:        *)
(*   "ok"       committed                                                  *)
(*   "nochange" accepted, nothing to commit                                *)
(*   "rejected" validation failed, nothing committed                       *)
(*   "error"    the handler raised, nothing committed                      *)
(*   "insufficient", "excess"  an issue above the stock, a return above    *)
(*              the linked quantity: refused after validation              *)
(*   "loaded"   a request that is handled concurrently has read its rows    *)
(*                                                                         *)
(* A handler is one action because requests are taken one at a time; the   *)
(* concurrent issue of consumables is modelled apart, with one action per  *)
(* database access of a request (`sessions' holds what each request in     *)
(* flight has read).                                                       *)
(***************************************************************************)
EXTENDS Integers, Sequences, FiniteSets, TLC

VARIABLES assets, repairs, technicians, now, last, movements, ownerships,
          stock, issuances, links, sessions

vars == <<assets, repairs, technicians, now, last, movements, ownerships,
          stock, issuances, links, sessions>>

(* ------------------------------ bounds -------------------------------- *)

\* Number of RepairLog rows ever created (ids 1..MaxRepairs).
MaxRepairs == 1
\* Number of requests that read the clock (datetime.utcnow) to stamp a row:
\* a completion of a repair, a movement or a change of owner.
MaxClock == 2

\* Number of ConsumableIssuanceLog rows ever created.
MaxLedger == 2
\* qty_in_stock of each stock item before anything is issued.
MaxStock == 2

(* ------------------------- reference data ----------------------------- *)

Null == <<>>
NULL == "NULL"

FalsyNum(o) == o = Null \/ o[1] = 0

\* Three facilities with one room each; room r belongs to facility r.
Rooms == {1, 2, 3}

FacilityOf(r) == r

FacilityName(f) ==
  CASE f = 1 -> "Central Store"
    [] f = 2 -> "Central Store Annex"
    [] f = 3 -> "Warehouse"

\* The model follows one asset: every handler reads and writes only the
\* Asset row named by its id (or owning the repair log named by its id).
AssetIds == {1}

StaffIds == {1, 2}

TechnicianIds == {1}

STATUS_CHOICES ==
  {"In Storage", "In Use", "Awaiting Repair", "In Repair",
   "Proposed for Retirement", "Retired", "Lost"}

MANUAL_STATUS_CHOICES ==
  {"In Storage", "In Use", "Proposed for Retirement", "Retired", "Lost"}

LOCKED_STATUSES == {"Retired", "Lost"}

REPAIR_MANAGED == {"Awaiting Repair", "In Repair"}

end_of_life_statuses == {"Proposed for Retirement", "Retired", "Lost"}

RepairStatuses == {"Pending", "In Progress", "Completed", "Cancelled"}

(* --------------------------- pure helpers ------------------------------ *)

\* Python's `needle in hay' on strings.
IsSubstring(needle, hay) ==
  \E i \in 1..(Len(hay) - Len(needle) + 1) :
    SubSeq(hay, i, i + Len(needle) - 1) = needle

\* The status after a room change computed with the substring test of
\* edit_repair.
MoveStatus_Substring(room) ==
  IF ~IsSubstring("Central Store", FacilityName(FacilityOf(room)))
    THEN "In Use" ELSE "In Storage"

\* asset_detail: status recomputed after a room change.
MoveStatus(room) ==
  IF FacilityName(FacilityOf(room)) # "Central Store" THEN "In Use" ELSE "In Storage"

\* edit_repair: status of the asset after its repair ended.
RepairDoneStatus(room) ==
  IF ~IsSubstring("Central Store", FacilityName(FacilityOf(room)))
    THEN "In Use" ELSE "In Storage"

MaxOf(S) == IF S = {} THEN 0 ELSE CHOOSE m \in S : \A x \in S : x <= m

\* The id the database gives the next row of a table.
NextId(table) == MaxOf(DOMAIN table) + 1

\* was: the status of the asset concerned when the request arrived.
Last(op, id, status, result, was) ==
  [op |-> op, id |-> id, status |-> status, result |-> result, was |-> was]


(* ------------------------------ AssetForm ------------------------------ *)

\* What a client can submit with the asset form.  "In Repair" stands for a
\* value that is no choice of the status field, "" for an empty field.
AssetFormInputs ==
  [status : MANUAL_STATUS_CHOICES \cup {"In Repair"},
   disposal_notes : {"", "written off"},
   make_model : {"", "Dell 5420"}]

\* The location fields of the form, which only new_asset keeps.
AssetLocationInputs == [room_id : Rooms \cup {0}, owner_id : StaffIds]

\* validate_status without its Rule 1.
validate_status_NoRule1(new_status, original_status) ==
  ~(/\ original_status \in LOCKED_STATUSES
    /\ new_status # original_status)

\* AssetForm.validate_status; original_status is NULL for a new asset.
validate_status(new_status, original_status) ==
  /\ ~(new_status = "Retired" /\ original_status # "Proposed for Retirement")
  /\ ~(/\ original_status \in LOCKED_STATUSES
       /\ new_status # original_status)

\* The field validators run by FlaskForm.validate: required fields, the
\* choices of the select fields and the inline validator of each field the
\* form still has (edit_asset deletes room_id, owner_id and, for some
\* assets, status).
AssetFormFieldsValid(f, has_status, original_status) ==
  /\ f.make_model # ""
  /\ has_status =>
       /\ f.status \in MANUAL_STATUS_CHOICES
       /\ validate_status(f.status, original_status)

\* AssetForm.validate: "ok", "rejected", or "error" when Rule 3 reads
\* self.status.data of a form whose status field was deleted (the attribute
\* is then None).
AssetForm_validate(f, has_status, original_status) ==
  IF ~AssetFormFieldsValid(f, has_status, original_status)
    THEN "rejected"
  ELSE IF ~has_status
    THEN "error"
  ELSE IF f.status \in end_of_life_statuses /\ f.disposal_notes = ""
    THEN "rejected"
  ELSE "ok"

(* ------------------------------ new_asset ------------------------------ *)

new_asset(f, loc) ==
  LET id == NextId(assets)
      res == IF loc.room_id \in Rooms /\ loc.owner_id \in StaffIds
               THEN AssetForm_validate(f, TRUE, NULL) ELSE "rejected"
  IN /\ id \in AssetIds
     /\ assets' =
          IF res = "ok"
            THEN assets @@ (id :> [status |-> f.status,
                                   room_id |-> loc.room_id,
                                   owner_id |-> loc.owner_id,
                                   make_model |-> f.make_model,
                                   disposal_notes |-> f.disposal_notes,
                                   is_archived |-> FALSE])
            ELSE assets
     /\ last' = Last("new_asset", id, f.status, res, "")
     /\ UNCHANGED <<repairs, technicians, now>>
     /\ UNCHANGED <<movements, ownerships, stock, issuances, links, sessions>>

(* ------------------------------ edit_asset ----------------------------- *)

edit_asset(id, f) ==
  LET asset == assets[id]
      is_status_locked == asset.status \in LOCKED_STATUSES
      is_repair_status == asset.status \in REPAIR_MANAGED
      has_status == ~(is_repair_status \/ is_status_locked)
      res == AssetForm_validate(f, has_status, asset.status)
  IN /\ assets' =
          IF res = "ok"
            THEN [assets EXCEPT
                    ![id].make_model = f.make_model,
                    ![id].disposal_notes = f.disposal_notes,
                    ![id].status =
                      IF ~is_repair_status /\ ~is_status_locked
                        THEN f.status ELSE @]
            ELSE assets
     /\ last' = Last("edit_asset", id, f.status, res, asset.status)
     /\ UNCHANGED <<repairs, technicians, now>>
     /\ UNCHANGED <<movements, ownerships, stock, issuances, links, sessions>>

(* ----------------------- asset_detail (move/reassign) ------------------ *)

MoveFormInputs ==
  [to_room : Rooms \cup {0}, new_owner : StaffIds, reason : {"", "relocation"}]

MoveAssetForm_validate(f) ==
  /\ f.to_room \in Rooms
  /\ f.new_owner \in StaffIds
  /\ f.reason # ""

\* asset_detail that writes a MovementLog row for every accepted move.
asset_detail_LogsEveryMove(id, f) ==
  LET asset == assets[id]
      previous_owner_id == asset.owner_id
      from_room_id == asset.room_id
      owner_changed == previous_owner_id # f.new_owner
      location_changed == from_room_id # f.to_room
      res == IF ~MoveAssetForm_validate(f) THEN "rejected"
             ELSE IF location_changed \/ owner_changed THEN "ok"
             ELSE "nochange"
      logs_room == res = "ok"
      logs_owner == res = "ok" /\ owner_changed
  IN /\ res = "ok" => now < MaxClock
     /\ now' = IF res = "ok" THEN now + 1 ELSE now
     /\ assets' =
          IF res = "ok"
            THEN [assets EXCEPT
                    ![id].room_id = f.to_room,
                    ![id].status =
                      IF location_changed THEN MoveStatus(f.to_room) ELSE @,
                    ![id].owner_id = f.new_owner]
            ELSE assets
     /\ movements' =
          IF logs_room
            THEN movements @@ (NextId(movements) :>
                   [asset_id |-> id, from_room_id |-> from_room_id,
                    to_room_id |-> f.to_room, reason |-> f.reason,
                    movement_date |-> now + 1])
            ELSE movements
     /\ ownerships' =
          IF logs_owner
            THEN ownerships @@ (NextId(ownerships) :>
                   [asset_id |-> id, previous_owner_id |-> previous_owner_id,
                    new_owner_id |-> f.new_owner, change_date |-> now + 1])
            ELSE ownerships
     /\ last' = Last("asset_detail", id, "", res, asset.status)
     /\ UNCHANGED <<repairs, technicians>>
     /\ UNCHANGED <<stock, issuances, links, sessions>>

asset_detail(id, f) ==
  LET asset == assets[id]
      previous_owner_id == asset.owner_id
      from_room_id == asset.room_id
      owner_changed == previous_owner_id # f.new_owner
      location_changed == from_room_id # f.to_room
      res == IF ~MoveAssetForm_validate(f) THEN "rejected"
             ELSE IF location_changed \/ owner_changed THEN "ok"
             ELSE "nochange"
      logs_room == res = "ok" /\ location_changed
      logs_owner == res = "ok" /\ owner_changed
  IN /\ res = "ok" => now < MaxClock
     /\ now' = IF res = "ok" THEN now + 1 ELSE now
     /\ assets' =
          IF res = "ok"
            THEN [assets EXCEPT
                    ![id].room_id = f.to_room,
                    ![id].status =
                      IF location_changed THEN MoveStatus(f.to_room) ELSE @,
                    ![id].owner_id = f.new_owner]
            ELSE assets
     /\ movements' =
          IF logs_room
            THEN movements @@ (NextId(movements) :>
                   [asset_id |-> id, from_room_id |-> from_room_id,
                    to_room_id |-> f.to_room, reason |-> f.reason,
                    movement_date |-> now + 1])
            ELSE movements
     /\ ownerships' =
          IF logs_owner
            THEN ownerships @@ (NextId(ownerships) :>
                   [asset_id |-> id, previous_owner_id |-> previous_owner_id,
                    new_owner_id |-> f.new_owner, change_date |-> now + 1])
            ELSE ownerships
     /\ last' = Last("asset_detail", id, "", res, asset.status)
     /\ UNCHANGED <<repairs, technicians>>
     /\ UNCHANGED <<stock, issuances, links, sessions>>

(* ------------------------------ add_repair ----------------------------- *)

InitialRepairFormInputs == {"", "screen flickers"}

\* add_repair that leaves the status of a locked asset alone.
add_repair_KeepLocked(id, problem_description) ==
  LET rid == NextId(repairs)
      res == IF problem_description # "" THEN "ok" ELSE "rejected"
  IN /\ rid <= MaxRepairs
     /\ repairs' =
          IF res = "ok"
            THEN repairs @@ (rid :> [asset_id |-> id,
                                     status |-> "Pending",
                                     cost |-> Null,
                                     technician_id |-> Null,
                                     replaced_parts |-> NULL,
                                     cancellation_reason |-> NULL,
                                     completed_date |-> Null])
            ELSE repairs
     /\ assets' =
          IF res = "ok" /\ assets[id].status \notin LOCKED_STATUSES
            THEN [assets EXCEPT ![id].status = "Awaiting Repair"]
            ELSE assets
     /\ last' = Last("add_repair", rid, "Pending", res, assets[id].status)
     /\ UNCHANGED <<technicians, now>>
     /\ UNCHANGED <<movements, ownerships, stock, issuances, links, sessions>>

add_repair(id, problem_description) ==
  LET rid == NextId(repairs)
      res == IF problem_description # "" THEN "ok" ELSE "rejected"
  IN /\ rid <= MaxRepairs
     /\ repairs' =
          IF res = "ok"
            THEN repairs @@ (rid :> [asset_id |-> id,
                                     status |-> "Pending",
                                     cost |-> Null,
                                     technician_id |-> Null,
                                     replaced_parts |-> NULL,
                                     cancellation_reason |-> NULL,
                                     completed_date |-> Null])
            ELSE repairs
     /\ assets' =
          IF res = "ok"
            THEN [assets EXCEPT ![id].status = "Awaiting Repair"]
            ELSE assets
     /\ last' = Last("add_repair", rid, "Pending", res, assets[id].status)
     /\ UNCHANGED <<technicians, now>>
     /\ UNCHANGED <<movements, ownerships, stock, issuances, links, sessions>>

(* ------------------------------ edit_repair ---------------------------- *)

\* What a client can submit with the repair update form: cost is empty
\* (Null) or a number, technician is 0 (the placeholder) or an id; a new log
\* has no replaced parts, every submission names one.
UpdateRepairFormInputs ==
  [status : RepairStatuses,
   cost : {Null, <<0>>, <<50>>},
   technician : {0} \cup TechnicianIds,
   replaced_parts : {"fan"},
   cancellation_reason : {"", "beyond repair"}]

\* The field validators of UpdateRepairForm: cost is Optional and
\* NumberRange(min=0), technician is a choice of the select field.
UpdateRepairFormFieldsValid(f) ==
  /\ f.status \in RepairStatuses
  /\ f.cost = Null \/ f.cost[1] >= 0
  /\ f.technician = 0 \/ f.technician \in technicians

\* UpdateRepairForm.validate testing only that a cost was entered.
UpdateRepairForm_validate_CostEntered(f) ==
  /\ UpdateRepairFormFieldsValid(f)
  /\ f.status = "Completed" =>
       /\ f.cost # Null
       /\ ~(f.technician = 0)
  /\ f.status = "Cancelled" => f.cancellation_reason # ""

UpdateRepairForm_validate(f) ==
  /\ UpdateRepairFormFieldsValid(f)
  /\ f.status = "Completed" =>
       /\ ~(FalsyNum(f.cost) \/ f.cost[1] <= 0)
       /\ ~(f.technician = 0)
  /\ f.status = "Cancelled" => f.cancellation_reason # ""

\* Cost taken from the form whatever the status.
RepairCost_AsSubmitted(new_status, c) == c

\* cost after an accepted update that submits cost c.
RepairCost(new_status, c) ==
  IF new_status = "Cancelled" THEN <<0>> ELSE c

\* Stamping at every update that submits Completed.
CompletedDate_Restamp(old_status, new_status, completed_date, t) ==
  IF new_status = "Completed" THEN <<t>>
  ELSE IF old_status = "Completed" /\ new_status # "Completed" THEN Null
  ELSE IF new_status = "Cancelled" THEN Null ELSE completed_date

\* completed_date after an accepted update; t is the clock reading.
CompletedDate(old_status, new_status, completed_date, t) ==
  LET c1 == IF new_status = "Cancelled" THEN Null ELSE completed_date
  IN IF new_status = "Completed" /\ old_status # "Completed" THEN <<t>>
     ELSE IF old_status = "Completed" /\ new_status # "Completed" THEN Null
     ELSE c1

\* The asset status written at every accepted update, also one that keeps
\* the status of the log.
AssetStatusAfterRepair_EveryUpdate(old_status, new_status, asset) ==
  IF new_status = "In Progress" THEN "In Repair"
  ELSE IF new_status = "Completed" \/ new_status = "Cancelled"
    THEN RepairDoneStatus(asset.room_id)
  ELSE asset.status

\* In Repair only for a log that was Pending (a reopened log forgotten).
AssetStatusAfterRepair_FromPending(old_status, new_status, asset) ==
  IF old_status # new_status
    THEN IF new_status = "In Progress" /\ old_status = "Pending" THEN "In Repair"
         ELSE IF new_status = "Completed" \/ new_status = "Cancelled"
           THEN RepairDoneStatus(asset.room_id)
         ELSE asset.status
    ELSE asset.status

\* Status of the owning asset after an accepted update.
AssetStatusAfterRepair(old_status, new_status, asset) ==
  IF old_status # new_status
    THEN IF new_status = "In Progress" THEN "In Repair"
         ELSE IF new_status = "Completed" \/ new_status = "Cancelled"
           THEN RepairDoneStatus(asset.room_id)
         ELSE asset.status
    ELSE asset.status

\* edit_repair that copies cost and technician to the log before it
\* validates the form.
edit_repair_AssignBeforeValidate(rid, f) ==
  LET repair == repairs[rid]
      new_status == f.status
      old_status == repair.status
      stamps == new_status = "Completed" /\ old_status # "Completed"
      res == IF UpdateRepairForm_validate(f) THEN "ok" ELSE "rejected"
  IN /\ (res = "ok" /\ stamps) => now < MaxClock
     /\ now' = IF res = "ok" /\ stamps THEN now + 1 ELSE now
     /\ repairs' =
          IF res = "ok"
            THEN [repairs EXCEPT
                    ![rid].cost = RepairCost(new_status, f.cost),
                    ![rid].technician_id =
                      IF f.technician # 0 THEN <<f.technician>> ELSE Null,
                    ![rid].replaced_parts = f.replaced_parts,
                    ![rid].cancellation_reason = f.cancellation_reason,
                    ![rid].completed_date =
                      CompletedDate(old_status, new_status, @, now + 1),
                    ![rid].status =
                      IF old_status # new_status THEN new_status ELSE @]
            ELSE [repairs EXCEPT
                    ![rid].cost = f.cost,
                    ![rid].technician_id =
                      IF f.technician # 0 THEN <<f.technician>> ELSE Null]
     /\ assets' =
          IF res = "ok"
            THEN [assets EXCEPT
                    ![repair.asset_id].status =
                      AssetStatusAfterRepair(old_status, new_status,
                                             assets[repair.asset_id])]
            ELSE assets
     /\ last' = Last("edit_repair", rid, f.status, res,
                     assets[repair.asset_id].status)
     /\ UNCHANGED technicians
     /\ UNCHANGED <<movements, ownerships, stock, issuances, links, sessions>>

edit_repair(rid, f) ==
  LET repair == repairs[rid]
      new_status == f.status
      old_status == repair.status
      stamps == new_status = "Completed" /\ old_status # "Completed"
      res == IF UpdateRepairForm_validate(f) THEN "ok" ELSE "rejected"
  IN /\ (res = "ok" /\ stamps) => now < MaxClock
     /\ now' = IF res = "ok" /\ stamps THEN now + 1 ELSE now
     /\ repairs' =
          IF res = "ok"
            THEN [repairs EXCEPT
                    ![rid].cost = RepairCost(new_status, f.cost),
                    ![rid].technician_id =
                      IF f.technician # 0 THEN <<f.technician>> ELSE Null,
                    ![rid].replaced_parts = f.replaced_parts,
                    ![rid].cancellation_reason = f.cancellation_reason,
                    ![rid].completed_date =
                      CompletedDate(old_status, new_status, @, now + 1),
                    ![rid].status =
                      IF old_status # new_status THEN new_status ELSE @]
            ELSE repairs
     /\ assets' =
          IF res = "ok"
            THEN [assets EXCEPT
                    ![repair.asset_id].status =
                      AssetStatusAfterRepair(old_status, new_status,
                                             assets[repair.asset_id])]
            ELSE assets
     /\ last' = Last("edit_repair", rid, f.status, res,
                     assets[repair.asset_id].status)
     /\ UNCHANGED technicians
     /\ UNCHANGED <<movements, ownerships, stock, issuances, links, sessions>>

(* ------------------------------ technicians ---------------------------- *)

add_technician(t) ==
  /\ t \notin technicians
  /\ technicians' = technicians \cup {t}
  /\ last' = Last("add_technician", t, "", "ok", "")
  /\ UNCHANGED <<assets, repairs, now>>
  /\ UNCHANGED <<movements, ownerships, stock, issuances, links, sessions>>

delete_technician(t) ==
  LET used == \E rid \in DOMAIN repairs : repairs[rid].technician_id = <<t>>
  IN /\ t \in technicians
     /\ technicians' = IF used THEN technicians ELSE technicians \ {t}
     /\ last' = Last("delete_technician", t, "",
                  IF used THEN "rejected" ELSE "ok", "")
     /\ UNCHANGED <<assets, repairs, now>>
     /\ UNCHANGED <<movements, ownerships, stock, issuances, links, sessions>>

(* ----------------------- archive, restore, delete ---------------------- *)

archive_asset(id) ==
  /\ id \in DOMAIN assets
  /\ assets' = [assets EXCEPT ![id].is_archived = TRUE]
  /\ last' = Last("archive_asset", id, "", "ok", assets[id].status)
  /\ UNCHANGED <<repairs, technicians, now>>
  /\ UNCHANGED <<movements, ownerships, stock, issuances, links, sessions>>

restore_asset(id) ==
  /\ id \in DOMAIN assets
  /\ assets' = [assets EXCEPT ![id].is_archived = FALSE]
  /\ last' = Last("restore_asset", id, "", "ok", assets[id].status)
  /\ UNCHANGED <<repairs, technicians, now>>
  /\ UNCHANGED <<movements, ownerships, stock, issuances, links, sessions>>

\* The rows of a child table that a cascade of the relationship to Asset
\* leaves: those of the other assets.
CascadeDelete(table, asset_id) ==
  [k \in {r \in DOMAIN table : table[r].asset_id # asset_id} |-> table[k]]

\* The rows of ConsumableIssuanceLog that the backref consumable_issuances
\* of an asset holds.
consumable_issuances(asset_id) ==
  {k \in DOMAIN issuances : issuances[k].issued_for_asset_id = asset_id}

\* db.session.delete(asset) and the commit: the flush first detaches the
\* rows of consumable_issuances (no delete cascade) by an UPDATE of
\* issued_for_asset_id to NULL, which the NOT NULL column refuses, so with
\* such rows the commit raises and nothing is written ("error"); without
\* them the asset goes with its repairs, movements, ownership_history and
\* linked_consumables.  The archive flag is not read.
delete_asset_permanent(id) ==
  LET res == IF consumable_issuances(id) # {} THEN "error" ELSE "ok"
  IN /\ id \in DOMAIN assets
     /\ assets' = IF res = "ok" THEN [k \in DOMAIN assets \ {id} |-> assets[k]]
                  ELSE assets
     /\ repairs' = IF res = "ok" THEN CascadeDelete(repairs, id) ELSE repairs
     /\ movements' = IF res = "ok" THEN CascadeDelete(movements, id)
                     ELSE movements
     /\ ownerships' = IF res = "ok" THEN CascadeDelete(ownerships, id)
                      ELSE ownerships
     /\ links' = IF res = "ok" THEN CascadeDelete(links, id) ELSE links
     /\ last' = Last("delete_asset_permanent", id, "", res, assets[id].status)
     /\ UNCHANGED <<technicians, now, stock, issuances, sessions>>

(* ------------------------------ import_assets -------------------------- *)

\* A row of an uploaded CSV file: status is any text ("Broken" stands for a
\* text that is no status, "" for an empty column); room_id and owner_id are
\* the rows that the facility/room names and the staff name resolve to, 0
\* when there is none.  The file has no column for disposal notes.
ImportRowInputs ==
  [status : {"", "In Use", "Lost", "Broken"},
   room_id : {0, 1},
   owner_id : {0, 1},
   make_model : {"Dell 5420"}]

\* Files of one or two rows.
ImportFileInputs ==
  {<<r>> : r \in ImportRowInputs}
    \cup {<<r1, r2>> : r1 \in ImportRowInputs, r2 \in ImportRowInputs}

\* The checks import_assets makes on a row.
ImportRowValid(row) ==
  /\ row.status # ""
  /\ row.room_id \in Rooms
  /\ row.owner_id \in StaffIds

\* All rows are added, or none when a row has an error.
import_assets(file) ==
  LET errors == {i \in DOMAIN file : ~ImportRowValid(file[i])}
      first == NextId(assets)
      res == IF errors = {} THEN "ok" ELSE "rejected"
      added == [id \in first..(first + Len(file) - 1) |->
                 [status |-> file[id - first + 1].status,
                  room_id |-> file[id - first + 1].room_id,
                  owner_id |-> file[id - first + 1].owner_id,
                  make_model |-> file[id - first + 1].make_model,
                  disposal_notes |-> NULL,
                  is_archived |-> FALSE]]
  IN /\ res = "ok" => DOMAIN added \subseteq AssetIds
     /\ assets' = IF res = "ok" THEN assets @@ added ELSE assets
     /\ last' = Last("import_assets", first, file[1].status, res, "")
     /\ UNCHANGED <<repairs, technicians, now>>
     /\ UNCHANGED <<movements, ownerships, stock, issuances, links, sessions>>

(* ------------------------------ consumables ---------------------------- *)

ConsumableIds == {1, 2}

\* The three consumable tables as one value.
Consumables(s, i, l) == [stock |-> s, issuances |-> i, links |-> l]

\* What a client can submit with the issue form; 0 is the placeholder of a
\* select field and an empty quantity.
IssueConsumableInputs ==
  [consumable_id : {0} \cup ConsumableIds,
   quantity : 0..(MaxStock + 1),
   issued_for_asset_id : {0, 1, 2}]

\* IssueConsumableForm: each select field holds a row that exists, the
\* quantity is at least 1.
IssueConsumableForm_validate(f) ==
  /\ f.consumable_id \in DOMAIN stock
  /\ f.quantity >= 1
  /\ f.issued_for_asset_id \in DOMAIN assets

\* AssetConsumableLink.query.filter_by(asset_id, consumable_id)
LinksOf(l, asset_id, consumable_id) ==
  {k \in DOMAIN l : l[k].asset_id = asset_id /\ l[k].consumable_id = consumable_id}

\* An issue that adds a link row even when the pair has one.
IssueEffect_NewLinkAlways(c, f, existing_link) ==
  Consumables(
    [c.stock EXCEPT ![f.consumable_id] = @ - f.quantity],
    c.issuances @@ (NextId(c.issuances) :>
      [consumable_id |-> f.consumable_id, quantity |-> f.quantity,
       issued_for_asset_id |-> f.issued_for_asset_id,
       transaction_type |-> "Issue", notes |-> NULL]),
    IF FALSE
      THEN [c.links EXCEPT ![existing_link].quantity = @ + f.quantity]
      ELSE c.links @@ (NextId(c.links) :>
             [asset_id |-> f.issued_for_asset_id,
              consumable_id |-> f.consumable_id,
              quantity |-> f.quantity]))

\* An issue that overwrites the quantity of an existing link.
IssueEffect_SetsLink(c, f, existing_link) ==
  Consumables(
    [c.stock EXCEPT ![f.consumable_id] = @ - f.quantity],
    c.issuances @@ (NextId(c.issuances) :>
      [consumable_id |-> f.consumable_id, quantity |-> f.quantity,
       issued_for_asset_id |-> f.issued_for_asset_id,
       transaction_type |-> "Issue", notes |-> NULL]),
    IF existing_link # 0
      THEN [c.links EXCEPT ![existing_link].quantity = f.quantity]
      ELSE c.links @@ (NextId(c.links) :>
             [asset_id |-> f.issued_for_asset_id,
              consumable_id |-> f.consumable_id,
              quantity |-> f.quantity]))

\* The consumable tables after an issue that passed validation and the
\* stock test; existing_link is a row of LinksOf, or 0 when there is none.
IssueEffect(c, f, existing_link) ==
  Consumables(
    [c.stock EXCEPT ![f.consumable_id] = @ - f.quantity],
    c.issuances @@ (NextId(c.issuances) :>
      [consumable_id |-> f.consumable_id, quantity |-> f.quantity,
       issued_for_asset_id |-> f.issued_for_asset_id,
       transaction_type |-> "Issue", notes |-> NULL]),
    IF existing_link # 0
      THEN [c.links EXCEPT ![existing_link].quantity = @ + f.quantity]
      ELSE c.links @@ (NextId(c.links) :>
             [asset_id |-> f.issued_for_asset_id,
              consumable_id |-> f.consumable_id,
              quantity |-> f.quantity]))

\* issue_consumable without the test of the stock.
issue_consumable_NoStockTest(f) ==
  LET c == Consumables(stock, issuances, links)
      valid == IssueConsumableForm_validate(f)
      enough == TRUE
      res == IF ~valid THEN "rejected"
             ELSE IF ~enough THEN "insufficient" ELSE "ok"
      found == IF valid THEN LinksOf(links, f.issued_for_asset_id, f.consumable_id)
               ELSE {}
  IN /\ res = "ok" => NextId(issuances) <= MaxLedger
     /\ \E existing_link \in (IF found = {} THEN {0} ELSE found) :
          LET d == IF res = "ok" THEN IssueEffect(c, f, existing_link) ELSE c
          IN /\ stock' = d.stock
             /\ issuances' = d.issuances
             /\ links' = d.links
     /\ last' = Last("issue_consumable", f.consumable_id, "", res, "")
     /\ UNCHANGED <<assets, repairs, technicians, now, movements, ownerships,
                  sessions>>

issue_consumable(f) ==
  LET c == Consumables(stock, issuances, links)
      valid == IssueConsumableForm_validate(f)
      enough == ~(stock[f.consumable_id] < f.quantity)
      res == IF ~valid THEN "rejected"
             ELSE IF ~enough THEN "insufficient" ELSE "ok"
      found == IF valid THEN LinksOf(links, f.issued_for_asset_id, f.consumable_id)
               ELSE {}
  IN /\ res = "ok" => NextId(issuances) <= MaxLedger
     /\ \E existing_link \in (IF found = {} THEN {0} ELSE found) :
          LET d == IF res = "ok" THEN IssueEffect(c, f, existing_link) ELSE c
          IN /\ stock' = d.stock
             /\ issuances' = d.issuances
             /\ links' = d.links
     /\ last' = Last("issue_consumable", f.consumable_id, "", res, "")
     /\ UNCHANGED <<assets, repairs, technicians, now, movements, ownerships,
                  sessions>>

\* What a client can submit with the return form.
ReturnConsumableInputs ==
  [quantity : 0..(MaxStock + 1), notes : {"", "faulty"}]

\* ReturnConsumableForm without the required reason.
ReturnConsumableForm_validate_NotesOptional(f) ==
  /\ f.quantity >= 1
  /\ f.notes \in {"", "faulty"}

ReturnConsumableForm_validate(f) ==
  /\ f.quantity >= 1
  /\ f.notes # ""

\* A return that keeps the link row of a full return, with quantity 0.
ReturnEffect_KeepsEmptyLink(c, asset_id, link_id, f) ==
  LET link == c.links[link_id]
  IN Consumables(
       [c.stock EXCEPT ![link.consumable_id] = @ + f.quantity],
       c.issuances @@ (NextId(c.issuances) :>
         [consumable_id |-> link.consumable_id, quantity |-> f.quantity,
          issued_for_asset_id |-> asset_id,
          transaction_type |-> "Return", notes |-> f.notes]),
       IF FALSE
         THEN [k \in DOMAIN c.links \ {link_id} |-> c.links[k]]
         ELSE [c.links EXCEPT ![link_id].quantity = @ - f.quantity])

\* A return that restocks only when part of the link is returned.
ReturnEffect_NoRestockOnFullReturn(c, asset_id, link_id, f) ==
  LET link == c.links[link_id]
  IN Consumables(
       (IF f.quantity = link.quantity THEN c.stock
        ELSE [c.stock EXCEPT ![link.consumable_id] = @ + f.quantity]),
       c.issuances @@ (NextId(c.issuances) :>
         [consumable_id |-> link.consumable_id, quantity |-> f.quantity,
          issued_for_asset_id |-> asset_id,
          transaction_type |-> "Return", notes |-> f.notes]),
       IF f.quantity = link.quantity
         THEN [k \in DOMAIN c.links \ {link_id} |-> c.links[k]]
         ELSE [c.links EXCEPT ![link_id].quantity = @ - f.quantity])

\* The consumable tables after a return that passed validation and the
\* quantity test.
ReturnEffect(c, asset_id, link_id, f) ==
  LET link == c.links[link_id]
  IN Consumables(
       [c.stock EXCEPT ![link.consumable_id] = @ + f.quantity],
       c.issuances @@ (NextId(c.issuances) :>
         [consumable_id |-> link.consumable_id, quantity |-> f.quantity,
          issued_for_asset_id |-> asset_id,
          transaction_type |-> "Return", notes |-> f.notes]),
       IF f.quantity = link.quantity
         THEN [k \in DOMAIN c.links \ {link_id} |-> c.links[k]]
         ELSE [c.links EXCEPT ![link_id].quantity = @ - f.quantity])

return_consumable(asset_id, link_id, f) ==
  LET c == Consumables(stock, issuances, links)
      link == links[link_id]
      res == IF ~ReturnConsumableForm_validate(f) THEN "rejected"
             ELSE IF f.quantity > link.quantity THEN "excess" ELSE "ok"
      d == IF res = "ok" THEN ReturnEffect(c, asset_id, link_id, f) ELSE c
  IN /\ link_id \in DOMAIN links
     /\ res = "ok" => NextId(issuances) <= MaxLedger
     /\ stock' = d.stock
     /\ issuances' = d.issuances
     /\ links' = d.links
     /\ last' = Last("return_consumable", link_id, "", res, "")
     /\ UNCHANGED <<assets, repairs, technicians, now, movements, ownerships,
                  sessions>>

(* --------------------- asset lifecycle: Spec --------------------------- *)

\* Repair updates of the lifecycle specification: one acceptable submission
\* per status and one that fails validation.
LifecycleRepairInputs ==
  {[status |-> st, cost |-> <<50>>, technician |-> 1, replaced_parts |-> "fan",
    cancellation_reason |-> "beyond repair"] : st \in RepairStatuses}
  \cup {[status |-> "Completed", cost |-> Null, technician |-> 0,
         replaced_parts |-> "", cancellation_reason |-> ""]}

\* Locations and moves of the lifecycle specification: every asset is
\* created with, and keeps, owner 1, so its moves are room changes, into
\* room 1 or room 3 (an asset is in room 2 when it was created there).
LifecycleLocationInputs == {loc \in AssetLocationInputs : loc.owner_id = 1}

LifecycleMoveInputs ==
  {f \in MoveFormInputs : f.new_owner = 1 /\ f.to_room # 2}

\* Edits of the lifecycle specification: the required field is filled in
\* (a submission without it is explored at creation).
LifecycleEditInputs == {f \in AssetFormInputs : f.make_model # ""}

\* An empty database with the technician that setup_data.py creates.
Init ==
  /\ assets = <<>>
  /\ repairs = <<>>
  /\ technicians = TechnicianIds
  /\ now = 0
  /\ movements = <<>>
  /\ ownerships = <<>>
  /\ stock = <<>>
  /\ issuances = <<>>
  /\ links = <<>>
  /\ sessions = <<>>
  /\ last = Last("init", 0, "", "ok", "")

Next ==
  \/ \E f \in AssetFormInputs : \E loc \in LifecycleLocationInputs : new_asset(f, loc)
  \/ \E id \in DOMAIN assets : \E f \in LifecycleEditInputs : edit_asset(id, f)
  \/ \E id \in DOMAIN assets : \E f \in LifecycleMoveInputs : asset_detail(id, f)
  \/ \E id \in DOMAIN assets : \E d \in InitialRepairFormInputs : add_repair(id, d)
  \/ \E rid \in DOMAIN repairs : \E f \in LifecycleRepairInputs : edit_repair(rid, f)

Spec == Init /\ [][Next]_vars

(* --------------------- repair workflow: SpecRepair --------------------- *)

\* One asset, created in the Central Store room as In Storage or In Use, no
\* repair logged yet.
InitRepair ==
  /\ \E st \in {"In Storage", "In Use"} :
       assets = (1 :> [status |-> st, room_id |-> 1, owner_id |-> 1,
                       make_model |-> "Dell 5420", disposal_notes |-> "",
                       is_archived |-> FALSE])
  /\ repairs = <<>>
  /\ technicians = TechnicianIds
  /\ now = 0
  /\ movements = <<>>
  /\ ownerships = <<>>
  /\ stock = <<>>
  /\ issuances = <<>>
  /\ links = <<>>
  /\ sessions = <<>>
  /\ last = Last("init", 0, "", "ok", "")

NextRepair ==
  \/ \E id \in DOMAIN assets : \E d \in InitialRepairFormInputs : add_repair(id, d)
  \/ \E rid \in DOMAIN repairs : \E f \in UpdateRepairFormInputs : edit_repair(rid, f)
  \/ \E t \in TechnicianIds : add_technician(t)
  \/ \E t \in TechnicianIds : delete_technician(t)

SpecRepair == InitRepair /\ [][NextRepair]_vars

(* ------------------------ move/reassign: SpecMove ---------------------- *)

\* The repair log an asset in a repair-managed status has: Pending after
\* add_repair, In Progress after the update that put the asset In Repair.
OpenRepair(id, status) ==
  [asset_id |-> id, status |-> status, cost |-> Null, technician_id |-> Null,
   replaced_parts |-> NULL, cancellation_reason |-> NULL,
   completed_date |-> Null]

\* One asset in any status, room and owner, with the disposal notes and the
\* repair log that its status comes with; nothing moved yet.
InitMove ==
  /\ \E st \in STATUS_CHOICES : \E r \in Rooms : \E o \in StaffIds :
       /\ assets = (1 :> [status |-> st, room_id |-> r, owner_id |-> o,
                          make_model |-> "Dell 5420",
                          disposal_notes |->
                            IF st \in end_of_life_statuses
                              THEN "written off" ELSE "",
                          is_archived |-> FALSE])
       /\ repairs = CASE st = "Awaiting Repair" -> (1 :> OpenRepair(1, "Pending"))
                      [] st = "In Repair" -> (1 :> OpenRepair(1, "In Progress"))
                      [] OTHER -> <<>>
  /\ technicians = TechnicianIds
  /\ now = 0
  /\ movements = <<>>
  /\ ownerships = <<>>
  /\ stock = <<>>
  /\ issuances = <<>>
  /\ links = <<>>
  /\ sessions = <<>>
  /\ last = Last("init", 0, "", "ok", "")

NextMove ==
  \E id \in DOMAIN assets : \E f \in MoveFormInputs : asset_detail(id, f)

SpecMove == InitMove /\ [][NextMove]_vars

(* ------------------------ consumables: SpecConsumable ------------------ *)

\* Two assets in use, two stock items with MaxStock pieces each, nothing
\* issued yet.
InitConsumable ==
  /\ assets = [id \in {1, 2} |->
                 [status |-> "In Use", room_id |-> 3, owner_id |-> id,
                  make_model |-> "Dell 5420", disposal_notes |-> "",
                  is_archived |-> FALSE]]
  /\ repairs = <<>>
  /\ technicians = TechnicianIds
  /\ now = 0
  /\ movements = <<>>
  /\ ownerships = <<>>
  /\ stock = [cid \in ConsumableIds |-> MaxStock]
  /\ issuances = <<>>
  /\ links = <<>>
  /\ sessions = <<>>
  /\ last = Last("init", 0, "", "ok", "")

NextConsumable ==
  \/ \E f \in IssueConsumableInputs : issue_consumable(f)
  \/ \E link_id \in DOMAIN links : \E f \in ReturnConsumableInputs :
       return_consumable(links[link_id].asset_id, link_id, f)

SpecConsumable == InitConsumable /\ [][NextConsumable]_vars

(* ------------------------ CSV import: SpecImport ----------------------- *)

\* Assets come from the form or from an uploaded file and are then edited
\* and moved.
NextImport ==
  \/ \E file \in ImportFileInputs : import_assets(file)
  \/ \E f \in AssetFormInputs : \E loc \in LifecycleLocationInputs : new_asset(f, loc)
  \/ \E id \in DOMAIN assets : \E f \in LifecycleEditInputs : edit_asset(id, f)
  \/ \E id \in DOMAIN assets : \E f \in LifecycleMoveInputs : asset_detail(id, f)

SpecImport == Init /\ [][NextImport]_vars

(* ============================ properties =============================== *)

(* ------------- several logs of one asset: SpecOpenRepairs -------------- *)

\* One asset for which add_repair was accepted twice: two Pending logs, the
\* asset Awaiting Repair, in any room.
InitOpenRepairs ==
  /\ \E r \in Rooms :
       assets = (1 :> [status |-> "Awaiting Repair", room_id |-> r,
                       owner_id |-> 1, make_model |-> "Dell 5420",
                       disposal_notes |-> "", is_archived |-> FALSE])
  /\ repairs = (1 :> OpenRepair(1, "Pending")) @@ (2 :> OpenRepair(1, "Pending"))
  /\ technicians = TechnicianIds
  /\ now = 0
  /\ movements = <<>>
  /\ ownerships = <<>>
  /\ stock = <<>>
  /\ issuances = <<>>
  /\ links = <<>>
  /\ sessions = <<>>
  /\ last = Last("add_repair", 2, "Pending", "ok", "Awaiting Repair")

\* Each log is updated with the submissions of the lifecycle specification.
NextOpenRepairs ==
  \E rid \in DOMAIN repairs : \E f \in LifecycleRepairInputs : edit_repair(rid, f)

SpecOpenRepairs == InitOpenRepairs /\ [][NextOpenRepairs]_vars

(* ------------- concurrent issues: SpecConcurrentIssue ------------------ *)

\* The requests that the server handles at the same time, one per thread.
RequestIds == {1, 2}

\* Two clients issue pieces of the same stock item.
ConcurrentIssueInputs ==
  {f \in IssueConsumableInputs : f.consumable_id = 1 /\ f.quantity \in 1..MaxStock
                                  /\ f.issued_for_asset_id # 0}

\* First database access of issue_consumable for a form that validates:
\* ConsumableStock.query.get loads the row into the session of the request.
\* The SELECT takes no lock that outlives it.
issue_consumable_load(r, f) ==
  /\ r \notin DOMAIN sessions
  /\ IssueConsumableForm_validate(f)
  /\ sessions' = sessions @@ (r :> [form |-> f,
                                    qty_in_stock |-> stock[f.consumable_id]])
  /\ last' = Last("issue_consumable", f.consumable_id, "", "loaded", "")
  /\ UNCHANGED <<assets, repairs, technicians, now, movements, ownerships>>
  /\ UNCHANGED <<stock, issuances, links>>

\* The rest of the request: the stock test on the loaded row, then
\* qty_in_stock -= issue_qty on that row, the ledger row, and the flush
\* (before the query for the link) and commit, which write the value
\* computed from the loaded one.
issue_consumable_commit(r) ==
  LET f == sessions[r].form
      stock_item == sessions[r].qty_in_stock
      c == Consumables([stock EXCEPT ![f.consumable_id] = stock_item],
                       issuances, links)
      enough == ~(stock_item < f.quantity)
      res == IF ~enough THEN "insufficient" ELSE "ok"
      found == LinksOf(links, f.issued_for_asset_id, f.consumable_id)
  IN /\ r \in DOMAIN sessions
     /\ res = "ok" => NextId(issuances) <= MaxLedger
     /\ \E existing_link \in (IF found = {} THEN {0} ELSE found) :
          LET d == IF res = "ok" THEN IssueEffect(c, f, existing_link)
                   ELSE Consumables(stock, issuances, links)
          IN /\ stock' = d.stock
             /\ issuances' = d.issuances
             /\ links' = d.links
     /\ sessions' = [k \in DOMAIN sessions \ {r} |-> sessions[k]]
     /\ last' = Last("issue_consumable", f.consumable_id, "", res, "")
     /\ UNCHANGED <<assets, repairs, technicians, now, movements, ownerships>>

NextConcurrentIssue ==
  \/ \E r \in RequestIds : \E f \in ConcurrentIssueInputs :
       issue_consumable_load(r, f)
  \/ \E r \in DOMAIN sessions : issue_consumable_commit(r)

SpecConcurrentIssue == InitConsumable /\ [][NextConcurrentIssue]_vars

(* ------------------ the consumable ledger: SpecLedger ------------------ *)

\* Issues and returns as the routes take them: the asset id of a return is
\* the one in the URL of the request, any asset.
NextLedger ==
  \/ \E f \in IssueConsumableInputs : issue_consumable(f)
  \/ \E asset_id \in DOMAIN assets : \E link_id \in DOMAIN links :
       \E f \in ReturnConsumableInputs : return_consumable(asset_id, link_id, f)

SpecLedger == InitConsumable /\ [][NextLedger]_vars

(* --------------------- archive and delete: SpecArchive ----------------- *)

\* The issues of the archive scenario: one piece of the first item, for
\* either asset.
ArchiveIssueInputs ==
  {f \in IssueConsumableInputs : f.consumable_id = 1 /\ f.quantity = 1
                                  /\ f.issued_for_asset_id # 0}

\* The returns of the archive scenario: one piece, with a reason.
ArchiveReturnInputs ==
  {f \in ReturnConsumableInputs : f.quantity = 1 /\ f.notes # ""}

\* Two assets in use and a stocked item; repairs, moves, issues and returns
\* give the assets their child rows, and an administrator archives,
\* restores and deletes.
NextArchive ==
  \/ \E id \in DOMAIN assets : \E d \in InitialRepairFormInputs : add_repair(id, d)
  \/ \E id \in DOMAIN assets : \E f \in LifecycleMoveInputs : asset_detail(id, f)
  \/ \E f \in ArchiveIssueInputs : issue_consumable(f)
  \/ \E link_id \in DOMAIN links : \E f \in ArchiveReturnInputs :
       return_consumable(links[link_id].asset_id, link_id, f)
  \/ \E id \in DOMAIN assets : archive_asset(id)
  \/ \E id \in DOMAIN assets : restore_asset(id)
  \/ \E id \in DOMAIN assets : delete_asset_permanent(id)

SpecArchive == InitConsumable /\ [][NextArchive]_vars

\* Rows of a table that exist before and after a step.
Kept(table) == DOMAIN table \cap DOMAIN table'

\* Rows of a table that a step creates.
Created(table) == DOMAIN table' \ DOMAIN table

\* C1: once an asset's status is Retired or Lost, no step (asset edit,
\* move/reassign, add repair, repair update) changes it to another value.
C1_LockedStatusIsFinal ==
  [][\A id \in DOMAIN assets :
       assets[id].status \in LOCKED_STATUSES =>
         /\ id \in DOMAIN assets'
         /\ assets'[id].status = assets[id].status]_vars

C3_RepairStatusOnlyByWorkflow ==
  [][/\ \A id \in Kept(assets) :
          /\ ( /\ assets[id].status \notin REPAIR_MANAGED
               /\ assets'[id].status \in REPAIR_MANAGED )
             => last'.op \in {"add_repair", "edit_repair"}
          /\ ( /\ assets[id].status \in REPAIR_MANAGED
               /\ assets'[id].status \notin REPAIR_MANAGED )
             => last'.op = "edit_repair"
     /\ \A id \in Created(assets) : assets'[id].status \notin REPAIR_MANAGED]_vars

\* C4: an add-repair request with a problem description, on an asset in any
\* status, is accepted, creates exactly one repair log, of that asset and
\* with status Pending, and sets the status of the asset to Awaiting Repair.
C4_AddRepairForcesAwaitingRepair ==
  [][\A id \in DOMAIN assets :
       add_repair(id, "screen flickers") =>
         /\ last'.result = "ok"
         /\ Created(repairs) = {last'.id}
         /\ repairs'[last'.id].asset_id = id
         /\ repairs'[last'.id].status = "Pending"
         /\ assets'[id].status = "Awaiting Repair"]_vars

\* C4 witness: a repair was just logged on an asset that was Retired, and
\* the asset now awaits repair.
C4_Witness ==
  /\ last.op = "add_repair"
  /\ last.result = "ok"
  /\ last.was = "Retired"
  /\ last.id \in DOMAIN repairs
  /\ repairs[last.id].status = "Pending"
  /\ assets[repairs[last.id].asset_id].status = "Awaiting Repair"

\* The operational status the specification gives an asset in a room: In
\* Storage in the facility named exactly "Central Store", In Use elsewhere.
SentinelStatus(room) ==
  IF FacilityName(FacilityOf(room)) = "Central Store" THEN "In Storage" ELSE "In Use"

\* C5: when a repair update changes the status of a log to Completed or
\* Cancelled, the asset of the log becomes In Storage if its room is in the
\* facility named exactly "Central Store" and In Use in every other facility.
C5_RepairEndRestoresBySentinel ==
  [][\A rid \in Kept(repairs) :
       ( /\ repairs'[rid].status # repairs[rid].status
         /\ repairs'[rid].status \in {"Completed", "Cancelled"} )
       => LET asset == assets'[repairs[rid].asset_id]
          IN asset.status = SentinelStatus(asset.room_id)]_vars

\* C6: when a repair update changes the status of a log to In Progress from
\* any other status, the asset of the log becomes In Repair.
C6_InProgressForcesInRepair ==
  [][\A rid \in Kept(repairs) :
       ( /\ repairs'[rid].status # repairs[rid].status
         /\ repairs'[rid].status = "In Progress" )
       => assets'[repairs[rid].asset_id].status = "In Repair"]_vars

\* C6 witness: a repair update that submitted In Progress was just accepted
\* while the asset was In Use, and the asset is In Repair.
C6_Witness ==
  /\ last.op = "edit_repair"
  /\ last.result = "ok"
  /\ last.status = "In Progress"
  /\ last.was = "In Use"
  /\ repairs[last.id].status = "In Progress"
  /\ assets[repairs[last.id].asset_id].status = "In Repair"

\* The transitions of the status of a repair log that the specification
\* names.
RepairTransitions ==
  {<<"Pending", "In Progress">>,
   <<"In Progress", "Completed">>, <<"In Progress", "Cancelled">>,
   <<"Completed", "In Progress">>, <<"Cancelled", "In Progress">>}

\* C7: the status of a repair log changes only along Pending -> In Progress,
\* In Progress -> Completed or Cancelled, Completed or Cancelled -> In
\* Progress; a log is created Pending and never returns to Pending.
C7_RepairStatusMachine ==
  [][/\ \A rid \in Kept(repairs) :
          repairs'[rid].status # repairs[rid].status
            => <<repairs[rid].status, repairs'[rid].status>> \in RepairTransitions
     /\ \A rid \in Created(repairs) : repairs'[rid].status = "Pending"]_vars

\* C8: every repair log that is Completed has a cost greater than zero and a
\* technician, who exists.
C8_CompletedHasCostAndTechnician ==
  \A rid \in DOMAIN repairs :
    repairs[rid].status = "Completed" =>
      /\ repairs[rid].cost # Null
      /\ repairs[rid].cost[1] > 0
      /\ repairs[rid].technician_id # Null
      /\ repairs[rid].technician_id[1] \in technicians

\* C8 witness: an update that submitted Completed was just accepted for a
\* log that had been Completed before (its completion is the second stamp)
\* and whose asset was not In Repair: a resubmission, or a log that went
\* from Cancelled to Completed.
C8_Witness ==
  /\ last.op = "edit_repair"
  /\ last.result = "ok"
  /\ last.status = "Completed"
  /\ last.was = "In Storage"
  /\ repairs[last.id].status = "Completed"
  /\ repairs[last.id].completed_date = <<2>>

\* C9: after an accepted repair update that submitted Cancelled, the log is
\* Cancelled with cost 0, no completion timestamp and a cancellation reason.
C9_CancelledForcesCostZero ==
  ( /\ last.op = "edit_repair"
    /\ last.result = "ok"
    /\ last.status = "Cancelled" )
  => /\ repairs[last.id].status = "Cancelled"
     /\ repairs[last.id].cost = <<0>>
     /\ repairs[last.id].completed_date = Null
     /\ repairs[last.id].cancellation_reason \notin {"", NULL}

\* C9 witness: a Completed log (so one that had a cost above zero and a
\* completion timestamp) was just cancelled.
C9_Witness ==
  /\ last.op = "edit_repair"
  /\ last.result = "ok"
  /\ last.status = "Cancelled"
  /\ now >= 1
  /\ repairs[last.id].cost = <<0>>
  /\ repairs[last.id].technician_id # Null

\* C10: the completion timestamp of a log is set exactly when the log is
\* Completed; a step into Completed stamps it with a new clock reading, and
\* a step from Completed to Completed leaves it as it was.
C10_CompletedDateTracksStatus ==
  /\ [](\A rid \in DOMAIN repairs :
          repairs[rid].completed_date # Null <=> repairs[rid].status = "Completed")
  /\ [][\A rid \in Kept(repairs) :
          /\ ( /\ repairs[rid].status # "Completed"
               /\ repairs'[rid].status = "Completed" )
             => (repairs'[rid].completed_date = <<now'>> /\ now' > now)
          /\ ( /\ repairs[rid].status = "Completed"
               /\ repairs'[rid].status = "Completed" )
             => repairs'[rid].completed_date = repairs[rid].completed_date]_vars

\* C10 witness: a log that is Completed for the second time: its first stamp
\* was cleared when it left Completed and it carries the second reading of
\* the clock.
C10_Witness ==
  /\ last.op = "edit_repair"
  /\ last.result = "ok"
  /\ last.status = "Completed"
  /\ DOMAIN repairs = {1}
  /\ repairs[1].status = "Completed"
  /\ repairs[1].completed_date = <<2>>
  /\ repairs[1].cancellation_reason = "beyond repair"

\* A submission that breaks a precondition of the repair update: Completed
\* without a cost above zero or without a technician, Cancelled without a
\* reason.
ViolatesRepairPrecondition(f) ==
  \/ /\ f.status = "Completed"
     /\ (f.cost = Null \/ f.cost[1] <= 0 \/ f.technician = 0)
  \/ /\ f.status = "Cancelled"
     /\ f.cancellation_reason = ""

ViolatingRepairInputs ==
  {f \in UpdateRepairFormInputs : ViolatesRepairPrecondition(f)}

\* C11: a repair update that submits Completed without a cost above zero or
\* without a technician, or Cancelled without a reason, changes nothing: in
\* every state, for every repair log and every such submission, the update
\* has no outcome in which a repair log (status, cost, technician, parts,
\* reason, completion timestamp), an asset or the clock differs from before.
C11_RejectedRepairUpdateChangesNothing ==
  \A rid \in DOMAIN repairs : \A f \in ViolatingRepairInputs :
    ~ENABLED (/\ edit_repair(rid, f)
              /\ ~(repairs' = repairs /\ assets' = assets /\ now' = now))

\* C11 witness: a Completed log (cost, technician and completion timestamp
\* set) for which Cancelled was just submitted without a reason; the update
\* was rejected and the log is as it was.
C11_Witness ==
  /\ last.op = "edit_repair"
  /\ last.result = "rejected"
  /\ last.status = "Cancelled"
  /\ repairs[last.id].status = "Completed"
  /\ repairs[last.id].cost = <<50>>
  /\ repairs[last.id].technician_id = <<1>>
  /\ repairs[last.id].completed_date # Null

\* C12: an accepted move/reassign request appends exactly one MovementLog
\* row (of the asset, from its room to the submitted room) if and only if the
\* submitted room differs from the room of the asset, and exactly one
\* OwnershipLog row (from its owner to the submitted owner) if and only if
\* the submitted owner differs from its owner; it changes no existing row,
\* and with room and owner both unchanged it leaves the asset as it was.
C12_MoveLogsExactlyTheChanges ==
  [][\A id \in DOMAIN assets : \A f \in MoveFormInputs :
       (MoveAssetForm_validate(f) /\ asset_detail(id, f))
         => /\ \A m \in DOMAIN movements :
                  m \in DOMAIN movements' /\ movements'[m] = movements[m]
            /\ \A o \in DOMAIN ownerships :
                  o \in DOMAIN ownerships' /\ ownerships'[o] = ownerships[o]
            /\ Cardinality(Created(movements)) =
                  IF f.to_room # assets[id].room_id THEN 1 ELSE 0
            /\ Cardinality(Created(ownerships)) =
                  IF f.new_owner # assets[id].owner_id THEN 1 ELSE 0
            /\ \A m \in Created(movements) :
                  /\ movements'[m].asset_id = id
                  /\ movements'[m].from_room_id = assets[id].room_id
                  /\ movements'[m].to_room_id = f.to_room
            /\ \A o \in Created(ownerships) :
                  /\ ownerships'[o].asset_id = id
                  /\ ownerships'[o].previous_owner_id = assets[id].owner_id
                  /\ ownerships'[o].new_owner_id = f.new_owner
            /\ ( /\ f.to_room = assets[id].room_id
                 /\ f.new_owner = assets[id].owner_id ) => assets' = assets]_vars

\* C12 witness: the second accepted request changed the owner only: there
\* are two OwnershipLog rows and one MovementLog row, written by the first.
C12_Witness ==
  /\ last.op = "asset_detail"
  /\ last.result = "ok"
  /\ DOMAIN ownerships = {1, 2}
  /\ DOMAIN movements = {1}
  /\ movements[1].movement_date = 1
  /\ ownerships[2].change_date = 2
  /\ assets[1].room_id = movements[1].to_room_id

\* C13: an accepted move that changes the room puts the asset in the
\* submitted room with status In Storage if that room is in the facility
\* named "Central Store" and In Use otherwise, whatever its status was; one
\* that changes only the owner leaves room and status as they were.
C13_MoveRecomputesStatus ==
  [][\A id \in DOMAIN assets : \A f \in MoveFormInputs :
       (MoveAssetForm_validate(f) /\ asset_detail(id, f))
         => /\ assets'[id].room_id = f.to_room
            /\ f.to_room # assets[id].room_id
                 => assets'[id].status = SentinelStatus(f.to_room)
            /\ f.to_room = assets[id].room_id
                 => assets'[id].status = assets[id].status]_vars

\* C13 witness: an asset that was Proposed for Retirement was just moved
\* into the room of "Central Store Annex" and is In Use.
C13_Witness ==
  /\ last.op = "asset_detail"
  /\ last.result = "ok"
  /\ last.was = "Proposed for Retirement"
  /\ DOMAIN movements = {1}
  /\ movements[1].to_room_id = 2
  /\ assets[1].room_id = 2
  /\ assets[1].status = "In Use"

\* Every row of a table before a step is in it, unchanged, after the step.
RowsKept(table, table2) ==
  \A k \in DOMAIN table : k \in DOMAIN table2 /\ table2[k] = table[k]

\* C14: an issue request for a stock item whose quantity exceeds the item's
\* qty_in_stock is refused and changes no stock quantity, no ledger row and
\* no link row.
C14_IssueAboveStockChangesNothing ==
  [][last'.op = "issue_consumable" =>
     \A f \in IssueConsumableInputs :
       ( /\ f.consumable_id = last'.id
         /\ f.consumable_id \in DOMAIN stock
         /\ f.quantity > stock[f.consumable_id]
         /\ issue_consumable(f) )
       => /\ last'.result # "ok"
          /\ stock' = stock
          /\ issuances' = issuances
          /\ links' = links]_vars

\* C14 witness: an issue was just refused for lack of stock on an item of
\* which one piece is left and one piece is linked to an asset.
C14_Witness ==
  /\ last.op = "issue_consumable"
  /\ last.result = "insufficient"
  /\ stock[last.id] = 1
  /\ \E k \in DOMAIN links :
       links[k].consumable_id = last.id /\ links[k].quantity = MaxStock - 1
  /\ DOMAIN issuances = {1}

\* C15: an accepted issue of quantity q (1 <= q <= qty_in_stock) takes
\* exactly q from the stock item and nothing from the others, appends exactly
\* one ledger row, of type Issue, quantity q, that item and that asset, and
\* adds q to the link row of (asset, item) or, when there is none, creates
\* that row with quantity q; no other link row changes.
C15_IssueMovesStockToLink ==
  [][last'.op = "issue_consumable" =>
     \A f \in IssueConsumableInputs :
       ( /\ f.consumable_id = last'.id
         /\ IssueConsumableForm_validate(f)
         /\ f.quantity <= stock[f.consumable_id]
         /\ issue_consumable(f) )
       => LET cid == f.consumable_id
              aid == f.issued_for_asset_id
              had == LinksOf(links, aid, cid)
          IN /\ last'.result = "ok"
             /\ stock' = [stock EXCEPT ![cid] = stock[cid] - f.quantity]
             /\ RowsKept(issuances, issuances')
             /\ Cardinality(Created(issuances)) = 1
             /\ \A i \in Created(issuances) :
                  /\ issuances'[i].transaction_type = "Issue"
                  /\ issuances'[i].quantity = f.quantity
                  /\ issuances'[i].consumable_id = cid
                  /\ issuances'[i].issued_for_asset_id = aid
             /\ had = {} =>
                  /\ RowsKept(links, links')
                  /\ Cardinality(Created(links)) = 1
                  /\ \A k \in Created(links) :
                       links'[k] = [asset_id |-> aid, consumable_id |-> cid,
                                    quantity |-> f.quantity]
             /\ had # {} =>
                  /\ DOMAIN links' = DOMAIN links
                  /\ \E k \in had :
                       links' = [links EXCEPT ![k].quantity =
                                   links[k].quantity + f.quantity]]_vars

\* C15 witness: the second issue of one piece of an item to the same asset:
\* two Issue rows in the ledger, one link row with quantity 2.
C15_Witness ==
  /\ last.op = "issue_consumable"
  /\ last.result = "ok"
  /\ DOMAIN issuances = {1, 2}
  /\ issuances[1].quantity = 1
  /\ issuances[2] = issuances[1]
  /\ DOMAIN links = {1}
  /\ links[1].quantity = 2
  /\ stock[links[1].consumable_id] = MaxStock - 2

\* C16: a return request whose quantity exceeds the quantity of the link, or
\* that gives no reason, is refused and changes no stock quantity, no ledger
\* row and no link row.
C16_RefusedReturnChangesNothing ==
  [][last'.op = "return_consumable" =>
     \A asset_id \in DOMAIN assets : \A link_id \in {last'.id} :
       \A f \in ReturnConsumableInputs :
         ( /\ (f.quantity > links[link_id].quantity \/ f.notes = "")
           /\ return_consumable(asset_id, link_id, f) )
         => /\ last'.result # "ok"
            /\ stock' = stock
            /\ issuances' = issuances
            /\ links' = links]_vars

\* C16 witness: a return with a reason was just refused because it exceeded
\* the one piece left on the link after an earlier partial return.
C16_Witness ==
  /\ last.op = "return_consumable"
  /\ last.result = "excess"
  /\ last.id \in DOMAIN links
  /\ links[last.id].quantity = 1
  /\ \E i \in DOMAIN issuances : issuances[i].transaction_type = "Return"

\* C17: an accepted return of quantity q against a link adds exactly q to
\* the stock item of the link and nothing to the others, appends exactly one
\* ledger row, of type Return and quantity q > 0, and takes q from the
\* quantity of the link, whose row is deleted when nothing is left; no other
\* link row changes.
C17_ReturnMovesLinkToStock ==
  [][last'.op = "return_consumable" =>
     \A asset_id \in DOMAIN assets : \A link_id \in {last'.id} :
       \A f \in ReturnConsumableInputs :
         ( /\ ReturnConsumableForm_validate(f)
           /\ f.quantity <= links[link_id].quantity
           /\ return_consumable(asset_id, link_id, f) )
         => LET link == links[link_id]
                cid == link.consumable_id
            IN /\ last'.result = "ok"
               /\ stock' = [stock EXCEPT ![cid] = stock[cid] + f.quantity]
               /\ RowsKept(issuances, issuances')
               /\ Cardinality(Created(issuances)) = 1
               /\ \A i \in Created(issuances) :
                    /\ issuances'[i].transaction_type = "Return"
                    /\ issuances'[i].quantity = f.quantity
                    /\ issuances'[i].quantity > 0
                    /\ issuances'[i].consumable_id = cid
               /\ \A k \in DOMAIN links \ {link_id} :
                    k \in DOMAIN links' /\ links'[k] = links[k]
               /\ Created(links) = {}
               /\ IF f.quantity = link.quantity
                    THEN link_id \notin DOMAIN links'
                    ELSE /\ link_id \in DOMAIN links'
                         /\ links'[link_id] =
                              [link EXCEPT !.quantity = link.quantity - f.quantity]]_vars

\* C17 witness: one piece of a link of two was just returned: the link row
\* is left with quantity 1 and the ledger ends with a Return row of 1.
C17_Witness ==
  /\ last.op = "return_consumable"
  /\ last.result = "ok"
  /\ last.id \in DOMAIN links
  /\ links[last.id].quantity = 1
  /\ DOMAIN issuances = {1, 2}
  /\ issuances[1].transaction_type = "Issue"
  /\ issuances[1].quantity = 2
  /\ issuances[2].transaction_type = "Return"
  /\ issuances[2].quantity = 1
  /\ stock[links[last.id].consumable_id] = MaxStock - 1

\* C18: in every state, for every issue the state accepts (item, asset,
\* quantity q), the return of q against the link of (asset, item) after that
\* issue is accepted and gives back the stock quantities and the link rows of
\* the state; when the pair had no link, the row the issue created is gone.
C18_IssueThenReturnRestores ==
  \A f \in IssueConsumableInputs :
    ( /\ IssueConsumableForm_validate(f)
      /\ f.quantity <= stock[f.consumable_id] )
    => LET c0 == Consumables(stock, issuances, links)
           had == LinksOf(links, f.issued_for_asset_id, f.consumable_id)
       IN \A existing_link \in (IF had = {} THEN {0} ELSE had) :
            LET c1 == IssueEffect(c0, f, existing_link)
                got == LinksOf(c1.links, f.issued_for_asset_id, f.consumable_id)
                r == [quantity |-> f.quantity, notes |-> "faulty"]
            IN /\ got # {}
               /\ \A link_id \in got :
                    /\ ReturnConsumableForm_validate(r)
                    /\ r.quantity <= c1.links[link_id].quantity
                    /\ LET c2 == ReturnEffect(c1, f.issued_for_asset_id, link_id, r)
                       IN /\ c2.stock = stock
                          /\ c2.links = links
                          /\ had = {} => link_id \notin DOMAIN c2.links

\* C18 witness: two pieces were issued and then returned: the ledger holds
\* the Issue row and the Return row, every item has its initial stock and
\* there is no link row.
C18_Witness ==
  /\ last.op = "return_consumable"
  /\ last.result = "ok"
  /\ DOMAIN issuances = {1, 2}
  /\ issuances[1].transaction_type = "Issue"
  /\ issuances[2].transaction_type = "Return"
  /\ issuances[1].quantity = 2
  /\ issuances[2].quantity = 2
  /\ \A cid \in DOMAIN stock : stock[cid] = MaxStock
  /\ links = <<>>

\* C19: in every state reached by issues and returns no two link rows have
\* the same (asset, stock item) pair and every link row has quantity at
\* least 1.
C19_OneLinkPerPairAtLeastOne ==
  /\ \A k1, k2 \in DOMAIN links :
       ( /\ links[k1].asset_id = links[k2].asset_id
         /\ links[k1].consumable_id = links[k2].consumable_id ) => k1 = k2
  /\ \A k \in DOMAIN links : links[k].quantity >= 1

\* C19 witness: the one piece of a link was just returned and the row of the
\* link is gone.
C19_Witness ==
  /\ last.op = "return_consumable"
  /\ last.result = "ok"
  /\ DOMAIN issuances = {1, 2}
  /\ issuances[1].quantity = 1
  /\ issuances[2].quantity = 1
  /\ last.id \notin DOMAIN links

\* C20: in every state every asset that is Proposed for Retirement, Retired
\* or Lost has disposal notes, and an asset edit or a creation by the form
\* that submits one of these statuses without a disposal reason is not
\* accepted and changes no asset.
C20_EndOfLifeHasDisposalNotes ==
  /\ [](\A id \in DOMAIN assets :
          assets[id].status \in end_of_life_statuses
            => assets[id].disposal_notes \notin {"", NULL})
  /\ [][\A f \in AssetFormInputs :
          ( /\ f.status \in end_of_life_statuses
            /\ f.disposal_notes = ""
            /\ \/ \E loc \in AssetLocationInputs : new_asset(f, loc)
               \/ \E id \in DOMAIN assets : edit_asset(id, f) )
          => (last'.result # "ok" /\ assets' = assets)]_vars

\* C21: an asset is removed only by the permanent delete of an archived
\* asset: whenever a step removes an asset, the asset's is_archived flag was
\* true before the step, so an asset never archived, or restored, stays.
C21_DeleteOnlyArchived ==
  [][\A id \in DOMAIN assets :
       id \notin DOMAIN assets' =>
         /\ last'.op = "delete_asset_permanent"
         /\ assets[id].is_archived]_vars

\* C22: a permanent delete removes the asset and every RepairLog,
\* MovementLog and AssetConsumableLink row of it, for every asset, also one
\* with rows in the issue/return ledger; and a step that is no permanent
\* delete removes no repair log.
C22_DeleteCascades ==
  [][/\ \A id \in DOMAIN assets :
          delete_asset_permanent(id) =>
            /\ id \notin DOMAIN assets'
            /\ \A r \in DOMAIN repairs' : repairs'[r].asset_id # id
            /\ \A m \in DOMAIN movements' : movements'[m].asset_id # id
            /\ \A l \in DOMAIN links' : links'[l].asset_id # id
     /\ last'.op # "delete_asset_permanent" =>
          \A r \in DOMAIN repairs : r \in DOMAIN repairs']_vars

\* C23: every asset that a step of the new-asset form or of the CSV import
\* creates has status In Storage or In Use; a creation request with another
\* status creates no asset.
C23_CreatedInStorageOrInUse ==
  [][\A id \in Created(assets) :
       assets'[id].status \in {"In Storage", "In Use"}]_vars

\* C24: for an asset that is Retired or Lost, status validation passes a
\* submitted status exactly when it equals the current one, and an edit with
\* otherwise valid values is accepted and leaves the status as it is when it
\* submits the same status, and is rejected when it submits another one.
C24_LockedRuleFirst ==
  /\ [](\A id \in DOMAIN assets :
          assets[id].status \in LOCKED_STATUSES =>
            \A new_status \in MANUAL_STATUS_CHOICES :
              validate_status(new_status, assets[id].status)
                <=> new_status = assets[id].status)
  /\ [][\A id \in DOMAIN assets : \A f \in AssetFormInputs :
          ( /\ assets[id].status \in LOCKED_STATUSES
            /\ f.status \in MANUAL_STATUS_CHOICES
            /\ f.make_model # ""
            /\ f.disposal_notes # ""
            /\ edit_asset(id, f) )
          => /\ assets'[id].status = assets[id].status
             /\ f.status = assets[id].status => last'.result = "ok"
             /\ f.status # assets[id].status => last'.result = "rejected"]_vars

\* C25: an edit of an asset that is Awaiting Repair or In Repair, with valid
\* values in the fields the form has, is accepted: the asset takes the
\* submitted make/model and disposal notes and keeps its status.
C25_RepairStatusAssetStaysEditable ==
  [][\A id \in DOMAIN assets : \A f \in AssetFormInputs :
       ( /\ assets[id].status \in REPAIR_MANAGED
         /\ f.make_model # ""
         /\ edit_asset(id, f) )
       => /\ last'.result = "ok"
          /\ assets'[id].make_model = f.make_model
          /\ assets'[id].disposal_notes = f.disposal_notes
          /\ assets'[id].status = assets[id].status]_vars

\* C26: a move and the end of a repair compute the operational status by
\* the same rule: a move into a room gives the asset the status that the
\* completion or cancellation of a repair gives an asset in that room, and
\* the end of a repair gives the asset the status that a move into its room
\* gives.
C26_MoveAndRepairSameRule ==
  [][\A id \in DOMAIN assets :
       /\ ( /\ last'.op = "asset_detail"
            /\ last'.id = id
            /\ assets'[id].room_id # assets[id].room_id )
          => assets'[id].status = RepairDoneStatus(assets'[id].room_id)
       /\ ( /\ last'.op = "edit_repair"
            /\ last'.result = "ok"
            /\ last'.status \in {"Completed", "Cancelled"}
            /\ repairs[last'.id].asset_id = id
            /\ repairs[last'.id].status # last'.status )
          => assets'[id].status = MoveStatus(assets[id].room_id)]_vars

\* The submission holds what the log holds: the same status, cost, parts and
\* reason, and the technician of the log (the placeholder when it has none).
SameAsStored(f, repair) ==
  /\ f.status = repair.status
  /\ f.cost = repair.cost
  /\ repair.technician_id = (IF f.technician # 0 THEN <<f.technician>> ELSE Null)
  /\ f.replaced_parts = repair.replaced_parts
  /\ f.cancellation_reason = repair.cancellation_reason

\* C27: in every state, for every repair log, an update that submits the
\* status the log has never changes an asset, whatever the status of the
\* asset is by then; and when cost, technician, parts and reason are those of
\* the log too, it changes no repair log either.
C27_SameStatusUpdateKeepsAsset ==
  \A rid \in DOMAIN repairs : \A f \in UpdateRepairFormInputs :
    f.status = repairs[rid].status =>
      /\ ~ENABLED (edit_repair(rid, f) /\ assets' # assets)
      /\ SameAsStored(f, repairs[rid]) =>
           ~ENABLED (edit_repair(rid, f) /\ repairs' # repairs)

\* C27 witness: the repair of the asset was completed, the asset was then
\* proposed for retirement, and Completed was submitted and accepted again:
\* the asset is still Proposed for Retirement.
C27_Witness ==
  /\ last.op = "edit_repair"
  /\ last.result = "ok"
  /\ last.status = "Completed"
  /\ last.was = "Proposed for Retirement"
  /\ repairs[last.id].status = "Completed"
  /\ repairs[last.id].completed_date = <<1>>
  /\ assets[repairs[last.id].asset_id].status = "Proposed for Retirement"

\* Issue rows count +quantity, Return rows -quantity.
SignedQuantity(row) ==
  IF row.transaction_type = "Return" THEN 0 - row.quantity ELSE row.quantity

RECURSIVE SumOfRows(_, _)
SumOfRows(table, rows) ==
  IF rows = {} THEN 0
  ELSE LET k == CHOOSE r \in rows : TRUE
       IN SignedQuantity(table[k]) + SumOfRows(table, rows \ {k})

\* Net quantity of an item that the ledger records for an asset.
NetLedgerQuantity(asset_id, consumable_id) ==
  SumOfRows(issuances,
            {k \in DOMAIN issuances :
               /\ issuances[k].issued_for_asset_id = asset_id
               /\ issuances[k].consumable_id = consumable_id})

\* Quantity of the link rows of the pair, 0 without a row.
LinkedQuantity(asset_id, consumable_id) ==
  SumOfRows([k \in DOMAIN links |->
               [transaction_type |-> "Issue", quantity |-> links[k].quantity]],
            LinksOf(links, asset_id, consumable_id))

\* C28: in every state reached by issues and returns, for every asset and
\* stock item the sum of the Issue quantities minus the sum of the Return
\* quantities of the ledger equals the quantity of the link of the pair (0
\* without a link); and the ledger row of a return is recorded against the
\* asset of the returned link.
C28_LedgerMatchesLinks ==
  /\ [](\A asset_id \in DOMAIN assets : \A consumable_id \in DOMAIN stock :
          NetLedgerQuantity(asset_id, consumable_id)
            = LinkedQuantity(asset_id, consumable_id))
  /\ [][(last'.op = "return_consumable" /\ last'.result = "ok") =>
          \A k \in Created(issuances) :
            issuances'[k].issued_for_asset_id = links[last'.id].asset_id]_vars

\* C29: in every state, an asset with a repair log that is Pending or In
\* Progress is Awaiting Repair or In Repair: the end of one log does not put
\* the asset back in use or in storage while another log of it is open.
C29_OpenLogKeepsAssetInRepair ==
  \A rid \in DOMAIN repairs :
    repairs[rid].status \in {"Pending", "In Progress"} =>
      assets[repairs[rid].asset_id].status \in REPAIR_MANAGED

\* C30: when issue requests for one stock item interleave, qty_in_stock is
\* never negative, and with no request in flight it equals the initial
\* quantity minus the sum of the quantities of the accepted requests (the
\* Issue rows of the ledger).
C30_NoLostStockUpdate ==
  \A consumable_id \in DOMAIN stock :
    /\ stock[consumable_id] >= 0
    /\ DOMAIN sessions = {} =>
         stock[consumable_id]
           = MaxStock - SumOfRows(issuances,
                          {k \in DOMAIN issuances :
                             issuances[k].consumable_id = consumable_id})

====
